---- MODULE Spec2Model ----
(***************************************************************************)
(* The rate-limited deletion pipeline of pipeline_notas.py: the shared     *)
(* TokenBucket, make_request_with_retry, and the four stages that          *)
(* process_story_for_deletion runs for one story id.                       *)
(*                                                                         *)
(* Units.  The clock `now` counts ticks of 1/TicksPerSecond second and the *)
(* bucket holds tokens in units of 1/TicksPerSecond token, so that         *)
(* fill_rate * (now - timestamp) is an integer.  Sleep lengths (backoff,   *)
(* jitter, Retry-After) are in units of 1/SleepScale second, with          *)
(* SleepScale = 2^max_retries, so that every backoff 1.0 * 1.5^k the loop  *)
(* can compute is an integer.                                              *)
(***************************************************************************)
EXTENDS Integers, Sequences, FiniteSets, TLC

\* ------------------------------------------------------------- constants
MAX_WORKERS == 12
MAX_RESULT_WINDOW == 10000
PAGE_SIZE == 100
TARGET_RPS == 13
BUCKET_TOKENS == 18
max_retries == 8
MAX_429_BACKOFF == 5

\* ---------------------------------------------------------------- bounds
\* clock ticks per second (and token units per token)
TicksPerSecond == 2
\* last clock reading of a run of SpecBucket, in ticks
MaxNow == 2
\* last clock reading of a run of Spec and of SpecRetry, in ticks
MaxPipelineNow == 1
\* threads calling through the rate limiter in SpecBucket
NumCallers == 2
\* admissions those threads ask for between them
MaxAdmissions == 34
\* the jitter random.uniform(0, 0.5) takes the values k * 0.5 / JitterSteps
JitterSteps == 1
\* --limit takes the values -MaxLimit..MaxLimit
MaxLimit == 2
\* the most lines of a CSV file given to load_rows_from_csv
MaxLines == 3
\* the ids SpecPool is given beyond the MAX_WORKERS that fit the pool
QueuedBeyond == 1
\* the audits: a datetime counts units of 1/UnitsPerSecond second (for the
\* microseconds of Python); publish dates fall in the seconds 0..MaxSecond;
\* the depth of recursion Python allows (for its 1000); the most whole pages
\* of a count
UnitsPerSecond == 4
MaxSecond == 3
RecursionLimit == 6
MaxPages == 2

SleepScale == 2 ^ max_retries

Min(a, b) == IF a <= b THEN a ELSE b

VARIABLES
    \* TokenBucket RATE_LIMITER: _tokens, _last_refill, and the holder of
    \* its lock
    tokens, timestamp, lock,
    \* time.time()
    now,
    \* per thread: position, and the locals of make_request_with_retry
    pc, stage, retries, backoff, last_error, sleep_time, response, raised,
    \* per thread: the locals of the stage functions
    website_ids, idx, all_successful, outcome,
    \* history: the tokens granted to all threads less the HTTP requests
    \* they sent; the tokens granted at clock readings >= windowStart
    unspent, windowStart, inWindow,
    \* history, per thread and logical call: requests sent, time slept,
    \* whether every result so far was a 429, whether one of them carried
    \* a Retry-After header that float() parses
    attempts, slept, all429, numericHeader,
    \* history, per thread: the logical calls in the order of their first
    \* request, what each stage function returned, and whether every
    \* response the thread has had was a 2xx, and whether every one was a
    \* 404; the delete-circulation calls that ended, without raising,
    \* in a 2xx or a 404
    calls, stage_ok, all2xx, all404, succeeded,
    \* the main thread: its position, the futures it has submitted (their
    \* story ids, in order), the futures as_completed has given it, and
    \* processed_count
    mainpc, futures, yielded, processed_count,
    \* the start of __main__: whether ARC_ACCESS_TOKEN and ORG_ID are both
    \* set, the parsed arguments, the input source they name, the list
    \* story_ids, the exit status of the process (read when mainpc is
    \* "exit"); history: whether the input source has been opened
    configured, args, input, story_ids, exit_status, opened,
    \* what load_rows_from_csv has returned
    rows,
    \* whether a KeyboardInterrupt has reached the main thread
    interrupted,
    \* the audits (auditoria_notas.py, auditoria_videos.py): the items the
    \* server holds, as their number for each second of publish_date; the
    \* deletion cutoff, a second; the position of the audit; the calls of
    \* retrieve_window still to run, the first on top; the date ranges whose
    \* items were collected, in order; the date range of the last query
    site, cutoff, auditpc, stack, leaves, queried,
    \* the date range (start_dt, end_dt) an audit collects by windows
    date_range,
    \* the locals of a pagination loop: offset, the count the server
    \* reported, and the length of the page in hand
    offset, total, stories

vars == <<tokens, timestamp, lock, now, pc, stage, retries, backoff, last_error,
          sleep_time, response, raised, website_ids, idx, all_successful,
          outcome, unspent, windowStart, inWindow, attempts, slept, all429,
          numericHeader, calls, stage_ok, all2xx, all404, succeeded,
          mainpc, futures, yielded, processed_count, configured, args,
          input, story_ids, exit_status, opened, rows, interrupted,
          site, cutoff, auditpc, stack, leaves, queried, date_range, offset,
          total, stories>>

bucketVars == <<tokens, timestamp, lock>>
countVars == <<unspent, windowStart, inWindow>>
retryVars == <<retries, backoff, last_error, sleep_time, response, raised,
               attempts, slept, all429, numericHeader>>
stageVars == <<website_ids, idx, all_successful, outcome, calls, stage_ok,
               all2xx, all404, succeeded>>
startVars == <<configured, args, input, story_ids, exit_status, opened, rows,
               interrupted>>
auditVars == <<site, cutoff, auditpc, stack, leaves, queried, date_range,
               offset, total, stories>>
mainVars == <<mainpc, futures, yielded, processed_count, startVars,
              auditVars>>

\* the threads of the run
Threads == DOMAIN pc

\* ------------------------------------------------------------ TokenBucket
capacity == BUCKET_TOKENS * TicksPerSecond
fill_rate == TARGET_RPS
\* consume(tokens=1)
M_OneToken == TicksPerSecond \div 2

OneToken == TicksPerSecond

M_Refilled == tokens + fill_rate * (now - timestamp)

\* lines 47-48: the refill
Refilled == Min(capacity, tokens + fill_rate * (now - timestamp))

\* lines 51-54: the answer of consume()
M_CanConsume == TRUE

CanConsume == Refilled >= OneToken

\* -------------------------------------------------- the remote service
\* A Retry-After header: absent, the empty string, a string float() parses
\* (secs, which a faulty server may send negative) or any other text, such
\* as an HTTP date.
NoHeader == [k |-> "absent", secs |-> 0]
EmptyHeader == [k |-> "empty", secs |-> 0]
TextHeader == [k |-> "text", secs |-> 0]
NumHeader(n) == [k |-> "num", secs |-> n]

\* The body of a circulation lookup, by the shape get_circulations tells
\* apart, with the website_id of each circulation record in it ("" for a
\* record without one).
NoBody == [shape |-> "none", items |-> <<>>]
Body(shape, items) == [shape |-> shape, items |-> items]

\* What SESSION.request gives: a response, or (status 0) a
\* requests.exceptions.RequestException.
Response(st, h, b) == [status |-> st, retry_after |-> h, body |-> b]
RequestException == Response(0, NoHeader, NoBody)

\* The answers a service `env` may give to a request of stage `stg`: only a
\* 429 is read for its header, only a lookup below 400 for its body.
Answers(env, stg) ==
    { Response(st, h, b) : st \in env.statuses \ {0, 429}, h \in {NoHeader},
          b \in IF stg = "lookup" THEN env.bodies ELSE {NoBody} }
    \cup { Response(429, h, NoBody) : h \in IF 429 \in env.statuses
                                             THEN env.headers ELSE {} }
    \cup (IF 0 \in env.statuses THEN {RequestException} ELSE {})

\* -------------------------------------------------------- wait_for_token
\* the lock when no thread holds it
Free == "free"

M_Released(w) == w

\* lines 44-54: leaving the `with self.lock` block of consume() releases
\* the lock, on either branch
Released(w) == Free

\* One turn of the loop of wait_for_token: consume() takes the lock, which
\* must be free, runs under it, and releases it.
wait_for_token(w) ==
    /\ pc[w] = "admit"
    /\ lock = Free
    /\ lock' = Released(w)
    /\ timestamp' = now
    /\ IF CanConsume
       THEN /\ tokens' = Refilled - OneToken
            /\ unspent' = unspent + 1
            /\ inWindow' = IF now >= windowStart THEN inWindow + 1 ELSE inWindow
            /\ pc' = [pc EXCEPT ![w] = "request"]
       ELSE /\ tokens' = Refilled
            /\ pc' = [pc EXCEPT ![w] = "poll"]
            /\ UNCHANGED <<unspent, inWindow>>
    /\ UNCHANGED <<now, stage, retryVars, stageVars, windowStart, mainVars>>

\* line 62: time.sleep(0.02), then the loop asks again
poll_sleep(w) ==
    /\ pc[w] = "poll"
    /\ pc' = [pc EXCEPT ![w] = "admit"]
    /\ UNCHANGED <<bucketVars, now, stage, retryVars, stageVars, countVars,
                   mainVars>>

\* ----------------------------------------------- make_request_with_retry
Is429(st) == st = 429

M_Is5xx(st) == 400 <= st /\ st < 600

\* line 102
Is5xx(st) == 500 <= st /\ st < 600

\* lines 80, 103, 115
ErrorText(st) ==
    IF st = 0 THEN "Exception"
    ELSE IF st = 429 THEN "HTTP 429 (Rate Limit)"
    ELSE IF st = 500 THEN "HTTP 500 (Server Error)"
    ELSE "HTTP 5xx (Server Error)"

M_SleepTime429(b, h, j) == Min(b, MAX_429_BACKOFF * SleepScale) + j

\* lines 82-90: the sleep after a 429 with header h, backoff b and jitter j
SleepTime429(b, h, j) ==
    IF h.k \in {"num", "text"}
    THEN IF h.k = "num" THEN h.secs * SleepScale ELSE b + j
    ELSE Min(b, MAX_429_BACKOFF * SleepScale) + j

\* line 104
SleepTime5xx(b, j) == b + j

\* line 118
SleepTimeException(b) == b

M_NextBackoff(b) == b

\* lines 97, 108, 119: backoff *= 1.5
NextBackoff(b) == (b * 3) \div 2

\* line 71
LoopAgain(r) == r < max_retries

M_LoopEntry == "request"

\* lines 71-73: every turn of the loop starts in wait_for_token
LoopEntry == "admit"

M_BeginCall(w, stg) ==
    /\ stage' = [stage EXCEPT ![w] = stg]
    /\ last_error' = [last_error EXCEPT ![w] = "Unknown"]
    /\ raised' = [raised EXCEPT ![w] = "no"]
    /\ attempts' = [attempts EXCEPT ![w] = 0]
    /\ slept' = [slept EXCEPT ![w] = 0]
    /\ all429' = [all429 EXCEPT ![w] = TRUE]
    /\ numericHeader' = [numericHeader EXCEPT ![w] = FALSE]
    /\ sleep_time' = [sleep_time EXCEPT ![w] = 0]
    /\ pc' = [pc EXCEPT ![w] = "admit"]
    /\ UNCHANGED <<response, retries, backoff>>

\* lines 66-71: the locals of a new call, and its first turn of the loop
BeginCall(w, stg) ==
    /\ stage' = [stage EXCEPT ![w] = stg]
    /\ retries' = [retries EXCEPT ![w] = 0]
    /\ backoff' = [backoff EXCEPT ![w] = SleepScale]
    /\ last_error' = [last_error EXCEPT ![w] = "Unknown"]
    /\ raised' = [raised EXCEPT ![w] = "no"]
    /\ attempts' = [attempts EXCEPT ![w] = 0]
    /\ slept' = [slept EXCEPT ![w] = 0]
    /\ all429' = [all429 EXCEPT ![w] = TRUE]
    /\ numericHeader' = [numericHeader EXCEPT ![w] = FALSE]
    /\ sleep_time' = [sleep_time EXCEPT ![w] = 0]
    /\ pc' = [pc EXCEPT ![w] = "admit"]
    /\ UNCHANGED response

M_CallOf(w) ==
    <<stage[w], IF stage[w] = "decirc" THEN website_ids[w].ids[1] ELSE "">>

\* The request kept in `calls`: the stage and, for a delete-circulation, the
\* website.
CallOf(w) ==
    <<stage[w], IF stage[w] = "decirc" THEN website_ids[w].ids[idx[w]] ELSE "">>

\* lines 76-115: SESSION.request and the classification of what it gives
send_request(w, env) ==
    /\ pc[w] = "request"
    /\ \E r \in Answers(env, stage[w]), j \in env.jitters :
        /\ response' = [response EXCEPT ![w] = r]
        /\ all429' = [all429 EXCEPT ![w] = @ /\ Is429(r.status)]
        /\ numericHeader' = [numericHeader EXCEPT
                                ![w] = @ \/ r.retry_after.k = "num"]
        /\ IF r.status = 0 \/ Is429(r.status) \/ Is5xx(r.status)
           THEN /\ last_error' = [last_error EXCEPT ![w] = ErrorText(r.status)]
                /\ sleep_time' = [sleep_time EXCEPT ![w] =
                       IF r.status = 0 THEN SleepTimeException(backoff[w])
                       ELSE IF Is429(r.status)
                            THEN SleepTime429(backoff[w], r.retry_after, j)
                            ELSE SleepTime5xx(backoff[w], j)]
                /\ pc' = [pc EXCEPT ![w] = "sleep"]
           ELSE \* line 112: return response
                /\ pc' = [pc EXCEPT ![w] = "returned"]
                /\ UNCHANGED <<last_error, sleep_time>>
    /\ unspent' = unspent - 1
    /\ all2xx' = [all2xx EXCEPT
                     ![w] = @ /\ 200 <= response'[w].status
                              /\ response'[w].status < 300]
    /\ all404' = [all404 EXCEPT ![w] = @ /\ response'[w].status = 404]
    /\ attempts' = [attempts EXCEPT ![w] = @ + 1]
    /\ calls' = [calls EXCEPT
                    ![w] = IF attempts[w] = 0 THEN Append(@, CallOf(w)) ELSE @]
    /\ UNCHANGED <<bucketVars, now, stage, retries, backoff, raised, slept,
                   website_ids, idx, all_successful, outcome, stage_ok,
                   succeeded, windowStart, inWindow, mainVars>>

\* lines 96-99, 107-110, 118-124: time.sleep, which raises ValueError on a
\* negative length; then the next turn of the loop, or the final raise
backoff_sleep(w) ==
    /\ pc[w] = "sleep"
    /\ IF sleep_time[w] < 0
       THEN /\ raised' = [raised EXCEPT ![w] = "ValueError"]
            /\ pc' = [pc EXCEPT ![w] = "returned"]
            /\ UNCHANGED <<slept, backoff, retries>>
       ELSE /\ slept' = [slept EXCEPT ![w] = @ + sleep_time[w]]
            /\ backoff' = [backoff EXCEPT ![w] = NextBackoff(@)]
            /\ retries' = [retries EXCEPT ![w] = @ + 1]
            /\ IF LoopAgain(retries[w] + 1)
               THEN /\ pc' = [pc EXCEPT ![w] = LoopEntry]
                    /\ UNCHANGED raised
               ELSE /\ pc' = [pc EXCEPT ![w] = "returned"]
                    /\ raised' = [raised EXCEPT ![w] = "retries"]
    /\ UNCHANGED <<bucketVars, now, stage, last_error, sleep_time, response,
                   attempts, all429, numericHeader, stageVars, countVars,
                   mainVars>>

\* ------------------------------------------------------ stage functions
None == [none |-> TRUE, ids |-> <<>>]
List(ids) == [none |-> FALSE, ids |-> ids]

\* response.ok
Ok(st) == ~(400 <= st /\ st < 600)

HasWebsiteId(circ) == circ # ""

M_ParseCirculations(body) ==
    IF body.shape = "list" THEN List(SelectSeq(body.items, HasWebsiteId))
    ELSE None

M_ParseCirculationsStrict(body) ==
    IF body.shape \in {"invalid", "unrecognized"} THEN None
    ELSE List(SelectSeq(body.items, HasWebsiteId))

\* lines 194-227: the website ids read from the body of a lookup. The shapes:
\* "list" a JSON list; "wrapped" a dict with a list under circulations,
\* items, results or data; "single" a dict with a website_id; "nested" a
\* dict with none of these but some value that is a non-empty list of
\* dicts; "unrecognized" any other JSON value; "invalid" not JSON.
ParseCirculations(body) ==
    IF body.shape = "invalid" THEN None
    ELSE IF body.shape \in {"list", "wrapped", "single", "nested"}
         THEN List(SelectSeq(body.items, HasWebsiteId))
         ELSE List(<<>>)

M_GetCirculationsNoFail(exc, r) ==
    IF exc # "no" \/ ~Ok(r.status) THEN List(<<>>)
    ELSE ParseCirculations(r.body)

M_GetCirculationsNo404(exc, r) ==
    IF exc # "no" \/ ~Ok(r.status) THEN None ELSE ParseCirculations(r.body)

\* lines 180-230: what get_circulations returns
GetCirculationsResult(exc, r) ==
    IF exc # "no" THEN None
    ELSE IF r.status = 404 THEN List(<<>>)
    ELSE IF ~Ok(r.status) THEN None
    ELSE ParseCirculations(r.body)

M_DeleteSucceededAny(exc, r) == exc = "no"

M_DeleteSucceededOk(exc, r) == exc = "no" /\ Ok(r.status)

\* lines 241-251, 259-271, 277-289: whether a DELETE call counts as done
DeleteSucceeded(exc, r) ==
    /\ exc = "no"
    /\ (r.status = 404 \/ Ok(r.status))

M_Proceeds(good) == TRUE

\* lines 297, 301, 306: a stage that did not succeed ends the run
Proceeds(good) == good

\* lines 291-312: the ways process_story_for_deletion ends
Outcomes == {"Success", "FailedAtCirculationLookup", "FailedAtDecirculation",
             "FailedAtUnpublish", "FailedAtDeletion"}

Failures == Outcomes \ {"Success"}

M_FinishAll(w, result) ==
    /\ outcome' = [outcome EXCEPT ![w] = result]
    /\ pc' = [v \in Threads |-> "done"]
    /\ UNCHANGED <<stage, retryVars>>

M_FinishAgain(w, result) ==
    /\ outcome' = [outcome EXCEPT ![w] = result]
    /\ pc' = [pc EXCEPT ![w] = "idle"]
    /\ UNCHANGED <<stage, retryVars>>

\* lines 299, 303, 308, 312: process_story_for_deletion returns
Finish(w, result) ==
    /\ outcome' = [outcome EXCEPT ![w] = result]
    /\ pc' = [pc EXCEPT ![w] = "done"]
    /\ UNCHANGED <<stage, retryVars>>

\* line 296: process_story_for_deletion calls get_circulations
process_story_for_deletion(w) ==
    /\ pc[w] = "idle"
    /\ BeginCall(w, "lookup")
    /\ UNCHANGED <<bucketVars, now, stageVars, countVars, mainVars>>

\* What a stage function returned, as kept in stage_ok.
Verdict(good) == IF good THEN "ok" ELSE "failed"

\* lines 182-230 and 297-301: get_circulations returns; on None the run
\* ends, else decirculate_story starts (lines 234-241)
get_circulations(w) ==
    /\ pc[w] = "returned" /\ stage[w] = "lookup"
    /\ LET ws == GetCirculationsResult(raised[w], response[w]) IN
        /\ website_ids' = [website_ids EXCEPT ![w] = ws]
        /\ IF ~Proceeds(~ws.none)
           THEN /\ stage_ok' = [stage_ok EXCEPT ![w].lookup = Verdict(~ws.none)]
                /\ Finish(w, "FailedAtCirculationLookup")
                /\ UNCHANGED <<idx, all_successful>>
           ELSE IF ws.ids = <<>>
           THEN \* line 235, then line 306: unpublish_story
                /\ stage_ok' = [stage_ok EXCEPT ![w].lookup = Verdict(~ws.none),
                                                 ![w].decirc = "ok"]
                /\ BeginCall(w, "unpub")
                /\ UNCHANGED <<idx, all_successful, outcome>>
           ELSE /\ stage_ok' = [stage_ok EXCEPT ![w].lookup = "ok"]
                /\ all_successful' = [all_successful EXCEPT ![w] = TRUE]
                /\ idx' = [idx EXCEPT ![w] = 1]
                /\ BeginCall(w, "decirc")
                /\ UNCHANGED outcome
    /\ UNCHANGED <<bucketVars, now, calls, all2xx, all404, succeeded,
                   countVars, mainVars>>

M_MoreWebsites(i, n) == FALSE

\* line 238: the for loop has a website after the i-th of n; nothing in its
\* body leaves the loop
MoreWebsites(i, n) == i < n

\* a final answer that is a 2xx or a 404, from a call that did not raise
Final2xxOr404(w) ==
    /\ raised[w] = "no"
    /\ \/ 200 <= response[w].status /\ response[w].status < 300
       \/ response[w].status = 404

\* lines 238-253 and 301-306: one delete-circulation call ends; the loop
\* goes to the next website, or decirculate_story returns
decirculate_story(w) ==
    /\ pc[w] = "returned" /\ stage[w] = "decirc"
    /\ LET good == all_successful[w] /\ DeleteSucceeded(raised[w], response[w])
       IN
        /\ all_successful' = [all_successful EXCEPT ![w] = good]
        /\ succeeded' = [succeeded EXCEPT
                            ![w] = IF Final2xxOr404(w) THEN @ + 1 ELSE @]
        /\ IF MoreWebsites(idx[w], Len(website_ids[w].ids))
           THEN /\ idx' = [idx EXCEPT ![w] = @ + 1]
                /\ BeginCall(w, "decirc")
                /\ UNCHANGED <<outcome, stage_ok>>
           ELSE /\ stage_ok' = [stage_ok EXCEPT ![w].decirc = Verdict(good)]
                /\ IF Proceeds(good)
                   THEN /\ BeginCall(w, "unpub")
                        /\ UNCHANGED <<idx, outcome>>
                   ELSE /\ Finish(w, "FailedAtDecirculation")
                        /\ UNCHANGED idx
    /\ UNCHANGED <<bucketVars, now, website_ids, calls, all2xx, all404,
                   countVars, mainVars>>

\* lines 259-271 and 306-311: unpublish_story returns
unpublish_story(w) ==
    /\ pc[w] = "returned" /\ stage[w] = "unpub"
    /\ LET good == DeleteSucceeded(raised[w], response[w]) IN
        /\ stage_ok' = [stage_ok EXCEPT ![w].unpub = Verdict(good)]
        /\ IF Proceeds(good)
           THEN /\ BeginCall(w, "delete")
                /\ UNCHANGED outcome
           ELSE Finish(w, "FailedAtUnpublish")
    /\ UNCHANGED <<bucketVars, now, website_ids, idx, all_successful, calls,
                   all2xx, all404, succeeded, countVars, mainVars>>

\* lines 277-289 and 311-312: delete_story_permanently returns
delete_story_permanently(w) ==
    /\ pc[w] = "returned" /\ stage[w] = "delete"
    /\ LET good == DeleteSucceeded(raised[w], response[w]) IN
        /\ stage_ok' = [stage_ok EXCEPT ![w].delete = Verdict(good)]
        /\ Finish(w, IF good THEN "Success" ELSE "FailedAtDeletion")
    /\ UNCHANGED <<bucketVars, now, website_ids, idx, all_successful, calls,
                   all2xx, all404, succeeded, countVars, mainVars>>

\* the clock advances, up to the reading `last`
Tick(last) ==
    /\ now < last
    /\ now' = now + 1
    /\ UNCHANGED <<bucketVars, pc, stage, retryVars, stageVars, countVars,
                   mainVars>>

\* the ticks in which an empty bucket refills
RefillTicks == (capacity + fill_rate - 1) \div fill_rate

\* Time passes in a run of any length: a pause long enough to refill the
\* bucket. consume() reads only now - timestamp, so the clock is kept
\* relative to its last reading: the time of the last refill moves back
\* instead.
Elapse ==
    /\ now - timestamp < RefillTicks
    /\ timestamp' = now - RefillTicks
    /\ UNCHANGED <<tokens, lock, now, pc, stage, retryVars, stageVars,
                   countVars, mainVars>>

\* -------------------------------------------------------------- __main__
M_Completed == Threads

\* the futures whose run has ended
Completed == { futures[i] : i \in 1..Len(futures) }
                 \cap { w \in Threads : pc[w] = "done" }

M_Pending(done) == {}

\* line 370: the futures as_completed has still to give
Pending(done) == { futures[i] : i \in 1..Len(futures) } \ done

\* line 368: executor.submit for the next id of story_ids; its run can start
submit(ids) ==
    /\ mainpc = "submit"
    /\ Len(futures) < Len(ids)
    /\ LET sid == ids[Len(futures) + 1] IN
        /\ futures' = Append(futures, sid)
        /\ pc' = [pc EXCEPT ![sid] = "idle"]
    /\ mainpc' = IF Len(futures) + 1 = Len(ids) THEN "collect"
                 ELSE "submit"
    /\ UNCHANGED <<bucketVars, now, stage, retryVars, stageVars, countVars, auditVars,
                   yielded, processed_count, startVars>>

\* lines 370-377: as_completed gives a finished future; whatever
\* future.result() does, processed_count goes up by one
as_completed(sid) ==
    /\ mainpc = "collect"
    /\ sid \in Pending(yielded) \cap Completed
    /\ yielded' = yielded \cup {sid}
    /\ processed_count' = processed_count + 1
    /\ UNCHANGED <<bucketVars, now, pc, stage, retryVars, stageVars,
                   countVars, auditVars, mainpc, futures, startVars>>

\* lines 370, 388-389: as_completed is exhausted; the summary is printed
summary ==
    /\ mainpc = "collect"
    /\ Pending(yielded) = {}
    /\ mainpc' = "summary"
    /\ UNCHANGED <<bucketVars, now, pc, stage, retryVars, stageVars,
                   countVars, auditVars, futures, yielded, processed_count, startVars>>

\* the runs in progress: started by a worker thread and not yet returned
InFlight == Cardinality({ w \in Threads : pc[w] \notin {"queued", "idle", "done"} })

M_FreeWorker == TRUE

\* line 366: ThreadPoolExecutor(max_workers=MAX_WORKERS) has at most
\* MAX_WORKERS threads, and each runs one work item at a time
FreeWorker == InFlight < MAX_WORKERS

\* lines 366-368: a worker thread of the pool takes the oldest work item of
\* the queue and calls process_story_for_deletion
worker_take(w) ==
    /\ FreeWorker
    /\ \E i \in 1..Len(futures) :
           /\ futures[i] = w
           /\ \A j \in 1..(i - 1) : pc[futures[j]] # "idle"
    /\ process_story_for_deletion(w)

\* The rest of a run taken as one step, when only its start and its end
\* matter: process_story_for_deletion returns (here as after a refused
\* lookup, line 299) and the worker thread is free again.
run_returns(w) ==
    /\ pc[w] \notin {"queued", "idle", "done"}
    /\ Finish(w, "FailedAtCirculationLookup")
    /\ UNCHANGED <<bucketVars, now, website_ids, idx, all_successful, calls,
                   stage_ok, all2xx, all404, succeeded, countVars, mainVars>>

\* A KeyboardInterrupt reaches the main thread inside the `with` block (lines
\* 366-377). It is no Exception, so it leaves the block: the executor's
\* __exit__ is shutdown(wait=True), which cancels no queued work item and
\* waits for the worker threads, and they go on taking items from the queue
\* until it is empty.
interrupt ==
    /\ mainpc \in {"submit", "collect"}
    /\ mainpc' = "shutdown"
    /\ interrupted' = TRUE
    /\ UNCHANGED <<bucketVars, now, pc, stage, retryVars, stageVars,
                   countVars, auditVars, futures, yielded, processed_count, configured,
                   args, input, story_ids, exit_status, opened, rows>>

\* lines 388-390: the count the summary reports for each outcome. It has
\* none: the two lines it prints give the elapsed time and the average rate,
\* and process_story_for_deletion returns nothing to count by.
ReportedTally == [o \in {} |-> 0]

\* a step of the main thread
Main(ids) ==
    \/ submit(ids)
    \/ \E sid \in Threads : as_completed(sid)
    \/ summary

\* the main thread at `at`, having submitted `ids`
MainAt(at, ids) ==
    /\ mainpc = at
    /\ futures = ids
    /\ yielded = {}
    /\ processed_count = 0
    /\ site = <<>> /\ cutoff = 0 /\ auditpc = "none"
    /\ stack = <<>> /\ leaves = <<>> /\ queried = <<0, 0>>
    /\ date_range = <<0, 0>>
    /\ offset = 0 /\ total = 0 /\ stories = 0

\* ------------------------------------------------- load_rows_from_csv
\* A file is a sequence of lines and a line the sequence of its fields (a
\* blank line has none). The fields "A" and "B" stand for ids of 26
\* alphanumeric characters, "a9" for an alphanumeric id of another length.
M_first_value(file) == ""

\* lines 148, 152: first_line.split(',')[0].strip()
first_value(file) ==
    IF file = <<>> \/ file[1] = <<>> THEN "" ELSE file[1][1]

\* line 153: len(first_value) == 26 and first_value.isalnum()
IsId26(v) == v \in {"A", "B"}

M_has_header(file) == TRUE

\* line 153
has_header(file) == ~IsId26(first_value(file))

\* r.get(name) of a csv.DictReader row: the field of the last column that
\* the header line h names so, "" (for None) when the row is too short or
\* no column has that name
Get(h, r, name) ==
    LET cols == { i \in 1..Len(h) : h[i] = name } IN
    IF cols = {} THEN ""
    ELSE LET i == CHOOSE j \in cols : \A k \in cols : k <= j IN
         IF i <= Len(r) THEN r[i] ELSE ""

\* a or b, of two strings
Or(a, b) == IF a # "" THEN a ELSE b

\* lines 158-163: the row of the header branch, or <<>> when it has no id
DictRow(h, r) ==
    LET story_id == Or(Get(h, r, "story_id"), Or(Get(h, r, "id"),
                                                 Get(h, r, "_id")))
        pub == Or(Get(h, r, "publish_date"), Or(Get(h, r, "publish"),
                                                Get(h, r, "date")))
    IN  IF r = <<>> \/ story_id = "" THEN <<>>
        ELSE <<[story_id |-> story_id, publish_date |-> pub]>>

\* lines 168-173: the row of the headerless branch, or <<>>
ListRow(r) ==
    IF r = <<>> \/ r[1] = "" THEN <<>>
    ELSE <<[story_id |-> r[1],
            publish_date |-> IF Len(r) > 1 THEN r[2] ELSE ""]>>

RECURSIVE RowsOf(_, _, _)
\* lines 157-173: the rows of lines i.. of the file
RowsOf(file, i, headed) ==
    IF i > Len(file) THEN <<>>
    ELSE (IF headed THEN DictRow(file[1], file[i]) ELSE ListRow(file[i]))
         \o RowsOf(file, i + 1, headed)

\* lines 142-174: what load_rows_from_csv returns for the file
LoadRows(file) ==
    IF has_header(file) THEN RowsOf(file, 2, TRUE)
    ELSE RowsOf(file, 1, FALSE)

\* the function is called on the input file
load_rows_from_csv ==
    /\ mainpc = "csv"
    /\ rows' = LoadRows(input.files[1])
    /\ mainpc' = "loaded"
    /\ UNCHANGED <<bucketVars, now, pc, stage, retryVars, stageVars,
                   countVars, auditVars, futures, yielded, processed_count, configured,
                   args, input, story_ids, exit_status, opened, interrupted>>

\* ---------------------------------------------------- start of __main__
\* args.limit when --limit is not given (None)
NoLimit == [given |-> FALSE, n |-> 0]

Limit(n) == [given |-> TRUE, n |-> n]

RECURSIVE StoryIdsOf(_)
\* lines 331-333: the story_id of every row
StoryIdsOf(rs) ==
    IF rs = <<>> THEN <<>> ELSE <<Head(rs).story_id>> \o StoryIdsOf(Tail(rs))

RECURSIVE NonEmptyLines(_)
\* lines 346-349: the lines of the ids file that are not blank
NonEmptyLines(file) ==
    IF file = <<>> THEN <<>>
    ELSE (IF Head(file) = <<>> \/ Head(file)[1] = "" THEN <<>>
          ELSE <<Head(file)[1]>>) \o NonEmptyLines(Tail(file))

RECURSIVE FromFiles(_)
\* lines 336-342: the ids of the CSV files of the directory, in order
FromFiles(files) ==
    IF files = <<>> THEN <<>>
    ELSE StoryIdsOf(LoadRows(Head(files))) \o FromFiles(Tail(files))

\* lines 330-349: the ids loaded from the source the arguments name
LoadedIds ==
    CASE args.source = "csv" -> StoryIdsOf(LoadRows(input.files[1]))
      [] args.source = "csv_dir" -> FromFiles(input.files)
      [] OTHER -> NonEmptyLines(input.files[1])

M_Limited(ids, lim) ==
    IF \E i, j \in 1..Len(ids) : i < j /\ ids[i] = ids[j]
    THEN SubSeq(ids, 1, 1) ELSE ids

M_NoIds(ids) == FALSE

\* line 355: `not story_ids`
NoIds(ids) == ids = <<>>

\* lines 352-353: `if args.limit: story_ids = story_ids[:args.limit]`. A
\* limit of 0 is false, and a negative one counts from the end of the list.
Limited(ids, lim) ==
    IF ~lim.given \/ lim.n = 0 THEN ids
    ELSE IF lim.n > 0 THEN SubSeq(ids, 1, Min(lim.n, Len(ids)))
    ELSE SubSeq(ids, 1, IF Len(ids) + lim.n > 0 THEN Len(ids) + lim.n ELSE 0)

M_check_config ==
    /\ mainpc = "start"
    /\ mainpc' = "load"
    /\ UNCHANGED <<bucketVars, now, pc, stage, retryVars, stageVars,
                   countVars, auditVars, futures, yielded, processed_count, configured,
                   args, input, story_ids, exit_status, opened, rows,
                   interrupted>>

\* lines 316-325: without both settings the process exits with status 1;
\* with them the arguments are parsed
check_config ==
    /\ mainpc = "start"
    /\ IF configured
       THEN mainpc' = "load" /\ UNCHANGED exit_status
       ELSE mainpc' = "exit" /\ exit_status' = 1
    /\ UNCHANGED <<bucketVars, now, pc, stage, retryVars, stageVars,
                   countVars, auditVars, futures, yielded, processed_count, configured,
                   args, input, story_ids, opened, rows, interrupted>>

\* lines 327-359 and 392-395: the ids are loaded and cut to the limit. A
\* source that cannot be read raises; the exception is caught and printed
\* and the script ends there, with status 0. An empty list is sys.exit(0).
load_story_ids ==
    /\ mainpc = "load"
    /\ opened' = TRUE
    /\ IF ~input.readable
       THEN /\ mainpc' = "exit"
            /\ exit_status' = 0
            /\ UNCHANGED story_ids
       ELSE /\ story_ids' = Limited(LoadedIds, args.limit)
            /\ IF NoIds(story_ids')
               THEN mainpc' = "exit" /\ exit_status' = 0
               ELSE mainpc' = "submit" /\ UNCHANGED exit_status
    /\ UNCHANGED <<bucketVars, now, pc, stage, retryVars, stageVars,
                   countVars, auditVars, futures, yielded, processed_count, configured,
                   args, input, rows, interrupted>>

\* The start vars once story_ids is loaded, the ids file holding the list.
RECURSIVE LinesOf(_)
LinesOf(list) ==
    IF list = <<>> THEN <<>> ELSE <<<<Head(list)>>>> \o LinesOf(Tail(list))

Loaded(list) ==
    /\ configured = TRUE
    /\ args = [source |-> "ids_file", limit |-> NoLimit]
    /\ input = [readable |-> TRUE, files |-> <<LinesOf(list)>>]
    /\ story_ids = list
    /\ exit_status = 0
    /\ opened = TRUE
    /\ rows = <<>>
    /\ interrupted = FALSE

\* ------------------------------------------------------------ audits
\* the state of the pipeline, which the audits leave alone
pipelineVars == <<bucketVars, now, pc, stage, retryVars, stageVars, countVars,
                  mainpc, futures, yielded, processed_count, startVars>>

\* dt_to_iso: strftime drops the fraction of the second
dt_to_iso(dt) == dt \div UnitsPerSecond

\* timedelta / 2: the quotient rounded to the unit, halves to the even one
Half(d) ==
    LET q == d \div 2 IN
    IF d % 2 = 0 \/ q % 2 = 0 THEN q ELSE q + 1

\* midpoint_dt
midpoint_dt(start, end) == start + Half(end - start)

M_RightStart(mid) == mid

\* mid + timedelta(seconds=1)
RightStart(mid) == mid + UnitsPerSecond

RECURSIVE CountIn(_, _, _)
\* fetch_count_for_query on publish_date:[a TO b], a and b seconds: the
\* items the server holds in those seconds
CountIn(held, a, b) ==
    IF a > b THEN 0
    ELSE (IF a \in DOMAIN held THEN held[a] ELSE 0) + CountIn(held, a + 1, b)

\* a call of retrieve_window(s, e), made by the call on `parent` (itself
\* for the first call), at `depth` of the recursion
Window(s, e, parent, depth) ==
    [s |-> s, e |-> e, parent |-> parent, depth |-> depth]

\* retrieve_window (auditoria_notas.py lines 72-127 and 310-362,
\* auditoria_videos.py lines 98-123): the call on top runs up to its
\* recursive calls or its return. It asks the count of its date range;
\* with none it returns; above MAX_RESULT_WINDOW it calls itself on the
\* two halves, left first, unless Python's recursion limit is reached;
\* else it collects the items of the range page by page. The requests
\* succeed and the server counts and gives the items it holds. The error
\* of the recursion limit ends the audit of auditoria_notas.py and makes
\* get_videos_for_site return an empty list.
retrieve_window ==
    /\ auditpc = "windows"
    /\ stack # <<>>
    /\ LET w == Head(stack)
           a == dt_to_iso(w.s)
           b == dt_to_iso(w.e)
           count == CountIn(site, a, b)
           mid == midpoint_dt(w.s, w.e)
       IN
        /\ queried' = <<a, b>>
        /\ IF count = 0
           THEN /\ stack' = Tail(stack)
                /\ auditpc' = IF stack' = <<>> THEN "done" ELSE "windows"
                /\ UNCHANGED leaves
           ELSE IF count > MAX_RESULT_WINDOW
           THEN IF w.depth >= RecursionLimit
                THEN /\ auditpc' = "RecursionError"
                     /\ UNCHANGED <<stack, leaves>>
                ELSE /\ stack' = <<Window(w.s, mid, <<w.s, w.e>>, w.depth + 1),
                                   Window(RightStart(mid), w.e, <<w.s, w.e>>,
                                          w.depth + 1)>> \o Tail(stack)
                     /\ UNCHANGED <<auditpc, leaves>>
           ELSE /\ leaves' = Append(leaves, <<a, b>>)
                /\ stack' = Tail(stack)
                /\ auditpc' = IF stack' = <<>> THEN "done" ELSE "windows"
    /\ UNCHANGED <<pipelineVars, site, cutoff, date_range, offset, total,
                   stories>>

\* the first and the last second in which the server holds an item
FirstSecond == CHOOSE a \in DOMAIN site :
                   site[a] > 0 /\ \A b \in DOMAIN site : site[b] > 0 => a <= b
LastSecond == CHOOSE a \in DOMAIN site :
                  site[a] > 0 /\ \A b \in DOMAIN site : site[b] > 0 => b <= a

\* parse_iso of a date with whole seconds
parse_iso(sec) == sec * UnitsPerSecond

\* auditoria_videos.py lines 125-196, get_videos_for_site up to its return
\* or its call of collect_videos_by_date_range. The first page is asked
\* with the query type:video alone. With more than MAX_RESULT_WINDOW hits
\* the range from the earliest publish date to the earlier of the latest
\* and the cutoff is collected by date windows; with fewer, the pages of the
\* same query type:video are read to the end (here in one step, the server
\* giving every item it holds).
get_videos_for_site ==
    /\ auditpc = "site"
    /\ LET total_hits == CountIn(site, 0, MaxSecond) IN
        IF total_hits = 0
        THEN auditpc' = "done" /\ UNCHANGED <<stack, leaves, date_range>>
        ELSE IF total_hits > MAX_RESULT_WINDOW
        THEN LET min_dt == parse_iso(FirstSecond)
                 max_dt == parse_iso(LastSecond)
                 effective_end == Min(max_dt, parse_iso(cutoff))
             IN  IF min_dt > effective_end
                 THEN auditpc' = "done" /\ UNCHANGED <<stack, leaves, date_range>>
                 ELSE /\ stack' = <<Window(min_dt, effective_end,
                                           <<min_dt, effective_end>>, 1)>>
                      /\ date_range' = <<min_dt, effective_end>>
                      /\ auditpc' = "windows"
                      /\ UNCHANGED leaves
        ELSE /\ leaves' = <<<<0, MaxSecond>>>>
             /\ auditpc' = "done"
             /\ UNCHANGED <<stack, date_range>>
    /\ UNCHANGED <<pipelineVars, site, cutoff, queried, offset, total, stories>>

\* the lengths a page of a successful response can have
PageLengths == {0, 1, PAGE_SIZE}

\* auditoria_notas.py lines 383-392: the first request of
\* fetch_story_ids_for_year, which gives the count and the first page; with
\* no count or an empty page the function returns
fetch_story_ids_for_year ==
    /\ auditpc = "year"
    /\ offset' = 0
    /\ \E n \in PageLengths :
        /\ stories' = n
        /\ auditpc' = IF total = 0 \/ n = 0 THEN "done" ELSE "year_loop"
    /\ UNCHANGED <<pipelineVars, site, cutoff, stack, leaves, queried,
                   date_range, total>>

\* auditoria_notas.py lines 412-429: one turn of `while offset < total`: the
\* page in hand is recorded and, unless the count is reached, the next page
\* is asked from the new offset; a request that fails ends the loop
year_page ==
    /\ auditpc = "year_loop"
    /\ offset < total
    /\ offset' = offset + stories
    /\ IF offset' >= total
       THEN auditpc' = "done" /\ UNCHANGED stories
       ELSE \/ \E n \in PageLengths : stories' = n /\ UNCHANGED auditpc
            \/ auditpc' = "done" /\ UNCHANGED stories
    /\ UNCHANGED <<pipelineVars, site, cutoff, stack, leaves, queried,
                   date_range, total>>

\* auditoria_notas.py lines 338-360: one turn of `while offset < count` in
\* retrieve_window: a page is asked from the offset and recorded; a request
\* that fails ends the loop
window_page ==
    /\ auditpc = "window_loop"
    /\ offset < total
    /\ \/ \E n \in PageLengths :
            /\ stories' = n
            /\ offset' = offset + n
            /\ auditpc' = IF offset' >= total THEN "done" ELSE "window_loop"
       \/ auditpc' = "done" /\ UNCHANGED <<stories, offset>>
    /\ UNCHANGED <<pipelineVars, site, cutoff, stack, leaves, queried,
                   date_range, total>>

\* ------------------------------------------------------- specifications
Jitters == { (k * SleepScale) \div (2 * JitterSteps) : k \in 0..JitterSteps }

NotRun == [lookup |-> "pending", decirc |-> "pending", unpub |-> "pending",
           delete |-> "pending"]

\* The state after the module is loaded (lines 24-57), with threads T at
\* position `at` of stage `stg` and `tk` tokens in the bucket.
InitWith(T, at, stg, tk) ==
    /\ tokens = tk
    /\ lock = Free
    /\ timestamp = 0
    /\ now = 0
    /\ pc = [w \in T |-> at]
    /\ stage = [w \in T |-> stg]
    /\ retries = [w \in T |-> 0]
    /\ backoff = [w \in T |-> SleepScale]
    /\ last_error = [w \in T |-> "Unknown"]
    /\ sleep_time = [w \in T |-> 0]
    /\ response = [w \in T |-> Response(0, NoHeader, NoBody)]
    /\ raised = [w \in T |-> "no"]
    /\ website_ids = [w \in T |-> None]
    /\ idx = [w \in T |-> 0]
    /\ all_successful = [w \in T |-> TRUE]
    /\ outcome = [w \in T |-> "none"]
    /\ unspent = 0
    /\ inWindow = 0
    /\ attempts = [w \in T |-> 0]
    /\ slept = [w \in T |-> 0]
    /\ all429 = [w \in T |-> TRUE]
    /\ numericHeader = [w \in T |-> FALSE]
    /\ calls = [w \in T |-> <<>>]
    /\ stage_ok = [w \in T |-> NotRun]
    /\ all2xx = [w \in T |-> TRUE]
    /\ all404 = [w \in T |-> TRUE]
    /\ succeeded = [w \in T |-> 0]

\* The pipeline: every story id runs process_story_for_deletion in a thread
\* of its own, against a service that may answer anything.
PipelineService ==
    [statuses |-> {0, 200, 302, 403, 404, 429, 500},
     headers |-> {NoHeader, NumHeader(-1)},
     jitters |-> {0},
     bodies |-> {Body("list", <<>>), Body("list", <<"a">>),
                 Body("list", <<"a", "b">>), Body("wrapped", <<"a", "">>),
                 Body("single", <<"a">>), Body("nested", <<"a">>),
                 Body("unrecognized", <<>>),
                 Body("invalid", <<>>)}]

\* the story ids of a run of Spec, one thread each
Stories == {"A"}

Init ==
    /\ InitWith(Stories, "idle", "none", capacity)
    /\ windowStart = 0
    /\ MainAt("collect", <<"A">>)
    /\ Loaded(<<"A">>)

Next ==
    \/ Tick(MaxPipelineNow)
    \/ \E w \in Threads : process_story_for_deletion(w)
    \/ \E w \in Threads : wait_for_token(w)
    \/ \E w \in Threads : poll_sleep(w)
    \/ \E w \in Threads : send_request(w, PipelineService)
    \/ \E w \in Threads : backoff_sleep(w)
    \/ \E w \in Threads : get_circulations(w)
    \/ \E w \in Threads : decirculate_story(w)
    \/ \E w \in Threads : unpublish_story(w)
    \/ \E w \in Threads : delete_story_permanently(w)

Spec == Init /\ [][Next]_vars

\* One call of make_request_with_retry, made when the bucket is full or has
\* been emptied by earlier calls, against a service that sends every kind of
\* Retry-After header.
RetryService ==
    [statuses |-> {0, 200, 403, 404, 429, 500},
     headers |-> {NoHeader, EmptyHeader, TextHeader, NumHeader(-1),
                  NumHeader(2)},
     jitters |-> Jitters,
     bodies |-> {NoBody}]

InitRetry ==
    /\ \E tk \in {0, capacity} : InitWith({"A"}, "admit", "call", tk)
    /\ windowStart = 0
    /\ MainAt("collect", <<>>)
    /\ Loaded(<<>>)

NextRetry ==
    \/ Tick(MaxPipelineNow)
    \/ \E w \in Threads : wait_for_token(w)
    \/ \E w \in Threads : poll_sleep(w)
    \/ \E w \in Threads : send_request(w, RetryService)
    \/ \E w \in Threads : backoff_sleep(w)

SpecRetry == InitRetry /\ [][NextRetry]_vars

\* The rate limiter alone: threads that ask for one admission after another
\* (wait_for_token in a loop), and a window of observation that starts at
\* any clock reading.
InitBucket ==
    /\ InitWith(1..NumCallers, "admit", "call", capacity)
    /\ windowStart \in 0..MaxNow
    /\ MainAt("collect", <<>>)
    /\ Loaded(<<>>)

\* the thread, admitted, calls wait_for_token again
next_admission(w) ==
    /\ pc[w] = "request"
    /\ unspent < MaxAdmissions
    /\ pc' = [pc EXCEPT ![w] = "admit"]
    /\ UNCHANGED <<bucketVars, now, stage, retryVars, stageVars, countVars,
                   mainVars>>

NextBucket ==
    \/ Tick(MaxNow)
    \/ \E w \in Threads : wait_for_token(w)
    \/ \E w \in Threads : poll_sleep(w)
    \/ \E w \in Threads : next_admission(w)

SpecBucket == InitBucket /\ [][NextBucket]_vars

\* The whole program on the input of the end-to-end scenario: A's calls all
\* succeed, B's lookup names website "x" whose delete-circulation is
\* answered 403, C's lookup is a wrapper in which no list is found. The
\* window of observation of the rate is not opened.
ScenarioService(w) ==
    [statuses |-> IF w = "B" /\ stage[w] = "decirc" /\ CallOf(w)[2] = "x"
                  THEN {403} ELSE {200},
     headers |-> {NoHeader},
     jitters |-> {0},
     bodies |-> CASE w = "A" -> {Body("list", <<"a", "b">>)}
                  [] w = "B" -> {Body("list", <<"x">>),
                                 Body("list", <<"a", "x">>),
                                 Body("wrapped", <<"x", "a">>)}
                  [] OTHER -> {Body("unrecognized", <<>>)}]

InitScenario ==
    /\ InitWith({"A", "B", "C"}, "queued", "none", capacity)
    /\ windowStart = 1
    /\ MainAt("submit", <<>>)
    /\ Loaded(<<"A", "B", "C">>)

NextScenario ==
    \/ Elapse
    \/ submit(<<"A", "B", "C">>)
    \/ \E sid \in Threads : as_completed(sid)
    \/ summary
    \/ \E w \in Threads : process_story_for_deletion(w)
    \/ \E w \in Threads : wait_for_token(w)
    \/ \E w \in Threads : send_request(w, ScenarioService(w))
    \/ \E w \in Threads : get_circulations(w)
    \/ \E w \in Threads : decirculate_story(w)
    \/ \E w \in Threads : unpublish_story(w)
    \/ \E w \in Threads : delete_story_permanently(w)

SpecScenario == InitScenario /\ [][NextScenario]_vars

\* The whole program on two story ids, against a service that may fail any
\* call for good (403) and the lookup for a while, or for ever (connection
\* errors). The window of observation of the rate is not opened.
MainService(w) ==
    [statuses |-> IF stage[w] = "lookup" THEN {0, 200, 403} ELSE {200, 403},
     headers |-> {NoHeader},
     jitters |-> {0},
     bodies |-> IF w = "A" THEN {Body("unrecognized", <<>>)}
                ELSE {Body("list", <<"a">>)}]

InitMain ==
    /\ InitWith({"A", "B"}, "queued", "none", capacity)
    /\ windowStart = 1
    /\ MainAt("submit", <<>>)
    /\ Loaded(<<"A", "B">>)

Run(w) ==
    \/ process_story_for_deletion(w)
    \/ wait_for_token(w)
    \/ poll_sleep(w)
    \/ send_request(w, MainService(w))
    \/ backoff_sleep(w)
    \/ get_circulations(w)
    \/ decirculate_story(w)
    \/ unpublish_story(w)
    \/ delete_story_permanently(w)

NextMain ==
    \/ Elapse
    \/ submit(<<"A", "B">>)
    \/ \E sid \in Threads : as_completed(sid)
    \/ summary
    \/ \E w \in Threads : process_story_for_deletion(w)
    \/ \E w \in Threads : wait_for_token(w)
    \/ \E w \in Threads : poll_sleep(w)
    \/ \E w \in Threads : send_request(w, MainService(w))
    \/ \E w \in Threads : backoff_sleep(w)
    \/ \E w \in Threads : get_circulations(w)
    \/ \E w \in Threads : decirculate_story(w)
    \/ \E w \in Threads : unpublish_story(w)
    \/ \E w \in Threads : delete_story_permanently(w)

\* Every thread that can take a step takes one in the end (the operating
\* system schedules it), time passes, and every request is answered or times
\* out (timeout=10).
SpecMain ==
    /\ InitMain
    /\ [][NextMain]_vars
    /\ WF_vars(Elapse)
    /\ WF_vars(Main(<<"A", "B">>))
    /\ \A w \in {"A", "B"} : WF_vars(Run(w))

\* The start of the program, for every setting of the configuration, of
\* --limit and of the input source, then the pool on the ids loaded (at most
\* two, "A" and "B"), against a service that refuses every call (403). The
\* window of observation of the rate is not opened.
StartupService ==
    [statuses |-> {403}, headers |-> {NoHeader}, jitters |-> {0},
     bodies |-> {NoBody}]

\* the sources: an ids file, a CSV file with or without header line, a
\* directory of CSV files; each unreadable, empty, or holding ids
StartupInputs ==
    { [source |-> src, readable |-> FALSE, files |-> <<>>] :
        src \in {"ids_file", "csv", "csv_dir"} }
    \cup { [source |-> "ids_file", readable |-> TRUE, files |-> <<f>>] :
             f \in { <<>>, << <<"A">> >>, << <<"A">>, <<>>, <<"B">> >> } }
    \cup { [source |-> "csv", readable |-> TRUE, files |-> <<f>>] :
             f \in { << <<"story_id", "publish_date">> >>,
                     << <<"story_id", "publish_date">>, <<"A", "d">>,
                        <<"B", "d">> >>,
                     << <<"A", "d">>, <<"B", "d">> >> } }
    \cup { [source |-> "csv_dir", readable |-> TRUE, files |-> fs] :
             fs \in { <<>>, << << <<"B">> >>, << <<"story_id">>, <<"A">> >> >> } }

InitStartup ==
    /\ InitWith({"A", "B"}, "queued", "none", capacity)
    /\ windowStart = 1
    /\ MainAt("start", <<>>)
    /\ configured \in BOOLEAN
    /\ \E i \in StartupInputs :
        /\ input = [readable |-> i.readable, files |-> i.files]
        /\ \E lim \in {NoLimit} \cup { Limit(n) : n \in -MaxLimit..MaxLimit } :
               args = [source |-> i.source, limit |-> lim]
    /\ story_ids = <<>>
    /\ exit_status = 0
    /\ opened = FALSE
    /\ rows = <<>>
    /\ interrupted = FALSE

NextStartup ==
    \/ check_config
    \/ load_story_ids
    \/ submit(story_ids)
    \/ \E sid \in Threads : as_completed(sid)
    \/ summary
    \/ \E w \in Threads : process_story_for_deletion(w)
    \/ \E w \in Threads : wait_for_token(w)
    \/ \E w \in Threads : send_request(w, StartupService)
    \/ \E w \in Threads : get_circulations(w)

SpecStartup == InitStartup /\ [][NextStartup]_vars

\* load_rows_from_csv on every file of at most MaxLines lines of one or two
\* fields
CsvLines ==
    { <<>> }
    \cup { <<f>> : f \in {"A", "a9", "story_id", "ID"} }
    \cup { <<f, g>> : f \in {"A", "a9", "story_id", "ID", ""},
                      g \in {"d", "story_id", "publish_date"} }

CsvFiles == UNION { [1..n -> CsvLines] : n \in 0..MaxLines }

InitCsv ==
    /\ InitWith({"A"}, "queued", "none", capacity)
    /\ windowStart = 1
    /\ MainAt("csv", <<>>)
    /\ configured = TRUE
    /\ args = [source |-> "csv", limit |-> NoLimit]
    /\ \E f \in CsvFiles : input = [readable |-> TRUE, files |-> <<f>>]
    /\ story_ids = <<>>
    /\ exit_status = 0
    /\ opened = TRUE
    /\ rows = <<>>
    /\ interrupted = FALSE

NextCsv == load_rows_from_csv

SpecCsv == InitCsv /\ [][NextCsv]_vars

\* The rate limiter shared by NumCallers threads in a run of any length:
\* time passes, a thread that waits for a token is scheduled again and again
\* (the operating system runs it, time.sleep(0.02) returns), and the threads
\* ask for MaxAdmissions tokens between them and then for the one each is
\* waiting for. The window of observation of the rate is not opened.
InitAdmit ==
    /\ InitWith(1..NumCallers, "admit", "call", capacity)
    /\ windowStart = 1
    /\ MainAt("collect", <<>>)
    /\ Loaded(<<>>)

Waits(w) == wait_for_token(w) \/ poll_sleep(w)

NextAdmit ==
    \/ Elapse
    \/ \E w \in Threads : wait_for_token(w)
    \/ \E w \in Threads : poll_sleep(w)
    \/ \E w \in Threads : next_admission(w)

SpecAdmit ==
    /\ InitAdmit
    /\ [][NextAdmit]_vars
    /\ WF_vars(Elapse)
    /\ \A w \in 1..NumCallers : WF_vars(Waits(w))

\* The pool on one id more than it has worker threads; the body of a run is
\* one step. The window of observation of the rate is not opened.
PoolIds == [i \in 1..(MAX_WORKERS + QueuedBeyond) |-> i]

InitPool ==
    /\ InitWith(1..(MAX_WORKERS + QueuedBeyond), "queued", "none", capacity)
    /\ windowStart = 1
    /\ MainAt("submit", <<>>)
    /\ Loaded(PoolIds)

NextPool ==
    \/ submit(story_ids)
    \/ interrupt
    \/ \E w \in Threads : worker_take(w)
    \/ \E w \in Threads : run_returns(w)

SpecPool == InitPool /\ [][NextPool]_vars

\* line 368: one future for every element of story_ids; the futures are the
\* keys of the dict, so two equal ids are two tasks: <<position, id>>
Tasks(ids) == [i \in 1..Len(ids) |-> <<i, ids[i]>>]

\* The program on an input that holds the same id twice, against a service
\* that accepts every call; the story has no circulation. The window of
\* observation of the rate is not opened.
DupService ==
    [statuses |-> {200}, headers |-> {NoHeader}, jitters |-> {0},
     bodies |-> {Body("list", <<>>)}]

DupInputs ==
    { [source |-> "ids_file", files |-> << << <<"A">>, <<"A">> >> >>],
      [source |-> "csv", files |-> << << <<"A", "d">>, <<"A", "d">> >> >>],
      [source |-> "csv_dir",
       files |-> << << <<"A">> >>, << <<"story_id">>, <<"A">> >> >>] }

InitDup ==
    /\ InitWith({<<1, "A">>, <<2, "A">>}, "queued", "none", capacity)
    /\ windowStart = 1
    /\ MainAt("load", <<>>)
    /\ configured = TRUE
    /\ \E i \in DupInputs :
        /\ input = [readable |-> TRUE, files |-> i.files]
        /\ args = [source |-> i.source, limit |-> NoLimit]
    /\ story_ids = <<>>
    /\ exit_status = 0
    /\ opened = FALSE
    /\ rows = <<>>
    /\ interrupted = FALSE

NextDup ==
    \/ load_story_ids
    \/ submit(Tasks(story_ids))
    \/ \E sid \in Threads : as_completed(sid)
    \/ summary
    \/ \E w \in Threads : process_story_for_deletion(w)
    \/ \E w \in Threads : wait_for_token(w)
    \/ \E w \in Threads : send_request(w, DupService)
    \/ \E w \in Threads : get_circulations(w)
    \/ \E w \in Threads : unpublish_story(w)
    \/ \E w \in Threads : delete_story_permanently(w)

SpecDup == InitDup /\ [][NextDup]_vars

\* the audits start with the pipeline at rest
PipelineIdle ==
    /\ InitWith({"A"}, "queued", "none", capacity)
    /\ windowStart = 1
    /\ Loaded(<<>>)
    /\ mainpc = "none" /\ futures = <<>> /\ yielded = {}
    /\ processed_count = 0

\* the numbers of items a second can hold
Bulks == {0, 1, MAX_RESULT_WINDOW, MAX_RESULT_WINDOW + 1}

\* collect_story_ids_by_date_range and collect_videos_by_date_range called
\* on a date range of whole seconds, for every content of the server
InitWindows ==
    /\ PipelineIdle
    /\ site \in [0..MaxSecond -> Bulks]
    /\ cutoff = MaxSecond
    /\ \E a \in 0..MaxSecond : \E b \in a..MaxSecond :
        /\ date_range = <<parse_iso(a), parse_iso(b)>>
        /\ stack = <<Window(parse_iso(a), parse_iso(b),
                            <<parse_iso(a), parse_iso(b)>>, 1)>>
    /\ auditpc = "windows"
    /\ leaves = <<>> /\ queried = <<0, 0>>
    /\ offset = 0 /\ total = 0 /\ stories = 0

NextWindows == retrieve_window

SpecWindows == InitWindows /\ [][NextWindows]_vars

\* get_videos_for_site for every content of the server and every cutoff
InitVideos ==
    /\ PipelineIdle
    /\ site \in [0..MaxSecond -> Bulks]
    /\ cutoff \in 0..MaxSecond
    /\ auditpc = "site"
    /\ stack = <<>> /\ leaves = <<>> /\ queried = <<0, 0>>
    /\ date_range = <<0, 0>>
    /\ offset = 0 /\ total = 0 /\ stories = 0

NextVideos ==
    \/ get_videos_for_site
    \/ retrieve_window

SpecVideos == InitVideos /\ [][NextVideos]_vars

\* the counts a pagination loop can be given
Totals == 0..(MaxPages * PAGE_SIZE)

\* the two pagination loops of story ids, for every count and every
\* sequence of responses
InitPaging ==
    /\ PipelineIdle
    /\ site = <<>> /\ cutoff = 0
    /\ auditpc \in {"year", "window_loop"}
    /\ total \in IF auditpc = "year" THEN Totals ELSE Totals \ {0}
    /\ stack = <<>> /\ leaves = <<>> /\ queried = <<0, 0>>
    /\ date_range = <<0, 0>>
    /\ offset = 0 /\ stories = 0

NextPaging ==
    \/ fetch_story_ids_for_year
    \/ year_page
    \/ window_page

SpecPaging == InitPaging /\ [][NextPaging]_vars

\* ================================================================ claims
\* the position of a stage in the order of process_story_for_deletion
Rank(stg) ==
    CASE stg = "lookup" -> 1
      [] stg = "decirc" -> 2
      [] stg = "unpub" -> 3
      [] stg = "delete" -> 4
      [] OTHER -> 0

\* a thread inside make_request_with_retry, its request sent or to be sent
InCall(w) == pc[w] \in {"admit", "poll", "request", "sleep"}

\* the stages a request of stage `stg` comes after
Before(stg) ==
    CASE stg = "decirc" -> {"lookup"}
      [] stg = "unpub" -> {"lookup", "decirc"}
      [] stg = "delete" -> {"lookup", "decirc", "unpub"}
      [] OTHER -> {}

\* a 4xx that is neither 404 nor 429
Fatal4xx(st) == 400 <= st /\ st < 500 /\ st \notin {404, 429}

\* C1: a request of a stage (first attempt or retry) is sent only when every
\* earlier stage has reported success, and the calls of a run follow the
\* order lookup, delete-circulation, unpublish, permanent delete: none is
\* made again after a later one.
C1_StagesInOrder ==
    \A w \in Threads :
        /\ InCall(w) =>
               \A b \in Before(stage[w]) : stage_ok[w][b] = "ok"
        /\ \A i \in 1..Len(calls[w]) :
               \A b \in Before(calls[w][i][1]) : stage_ok[w][b] = "ok"
        /\ \A i, j \in 1..Len(calls[w]) :
               i < j => Rank(calls[w][i][1]) <= Rank(calls[w][j][1])

C1_Witness ==
    \E w \in Threads :
        /\ outcome[w] = "Success"
        /\ calls[w] = <<<<"lookup", "">>, <<"decirc", "a">>, <<"decirc", "b">>,
                        <<"unpub", "">>, <<"delete", "">>>>

\* C2: at every point the tokens granted are at least the HTTP requests
\* sent (unspent = granted - sent), retries included.
C2_AdmittedBeforeSent == unspent >= 0

C2_Witness ==
    \E w \in Threads : retries[w] >= 1 /\ attempts[w] = retries[w] + 1

\* C3: in the clock interval from windowStart to now, of length T, at most
\* capacity + fill_rate * T tokens are granted, whatever the number of
\* threads and their interleaving.
C3_ThroughputBound ==
    now >= windowStart =>
        inWindow * OneToken <= capacity + fill_rate * (now - windowStart)

C3_Witness ==
    /\ windowStart > 0
    /\ inWindow > BUCKET_TOKENS
    /\ \E w \in Threads : pc[w] = "poll"

\* the requests of a run in which nothing is retried
CallsFor(ids) ==
    <<<<"lookup", "">>>> \o [i \in 1..Len(ids) |-> <<"decirc", ids[i]>>]
        \o <<<<"unpub", "">>, <<"delete", "">>>>

LookupBodyInvalid(w) ==
    stage[w] = "lookup" /\ response[w].body.shape = "invalid"

C5_FatalDecirculationHalts ==
    /\ [](\A w \in Threads :
            ~all_successful[w] =>
                /\ stage[w] = "decirc"
                /\ \A i \in 1..Len(calls[w]) : Rank(calls[w][i][1]) <= 2
                /\ pc[w] = "done" => outcome[w] = "FailedAtDecirculation")
    /\ [][\A w \in Threads :
            /\ pc[w] = "returned" /\ stage[w] = "decirc" /\ raised[w] = "no"
            /\ Fatal4xx(response[w].status)
            /\ pc'[w] # pc[w]
            => ~all_successful'[w]]_vars

C5_Witness ==
    \E w \in Threads :
        /\ pc[w] = "done" /\ outcome[w] = "FailedAtDecirculation"
        /\ Len(calls[w]) = 3
        /\ Fatal4xx(response[w].status) /\ raised[w] = "no"

\* a call of make_request_with_retry that ended by raising: no attempt of it
\* was answered with anything but a 429, a 5xx or a RequestException
CallRaised(w) == pc[w] = "returned" /\ raised[w] # "no"

\* C6: a call whose every attempt is retryable sends exactly max_retries
\* requests, then raises the failure that carries the error of the last
\* attempt.
C6_ExactlyMaxRetries ==
    \A w \in Threads :
        /\ attempts[w] <= max_retries
        /\ CallRaised(w) =>
               /\ raised[w] = "retries"
               /\ attempts[w] = max_retries
               /\ last_error[w] = ErrorText(response[w].status)

\* the backoff in force at attempt k (0 for the first): 1.0 * 1.5^k
RECURSIVE BackoffAt(_)
BackoffAt(k) == IF k = 0 THEN SleepScale ELSE (BackoffAt(k - 1) * 3) \div 2

RECURSIVE SumTo(_, _)
SumTo(F(_), n) == IF n = 0 THEN 0 ELSE F(n - 1) + SumTo(F, n - 1)

Capped(k) == Min(BackoffAt(k), MAX_429_BACKOFF * SleepScale)

\* a call that was answered 429 at every attempt up to the retry cap
Exhausted429(w) == CallRaised(w) /\ raised[w] = "retries" /\ all429[w]

\* C7 as stated: such a call has slept at least the sum of the backoff
\* values 1.0 * 1.5^k of its 8 attempts, with or without Retry-After.
C7_SleptBackoffSchedule ==
    \A w \in Threads :
        Exhausted429(w) => slept[w] >= SumTo(BackoffAt, max_retries)

\* C7 amended: when none of the 429 answers carried a Retry-After value that
\* float() parses, the call has slept at least the sum over its 8 attempts
\* of min(backoff, 5.0).
C7_SleptCappedSchedule ==
    \A w \in Threads :
        Exhausted429(w) /\ ~numericHeader[w] =>
            slept[w] >= SumTo(Capped, max_retries)

C7_Witness ==
    \E w \in Threads :
        /\ Exhausted429(w) /\ ~numericHeader[w]
        /\ slept[w] < SumTo(BackoffAt, max_retries)

\* a thread about to sleep after a 429
Sleeps429(w) == pc[w] = "sleep" /\ response[w].status = 429

\* C8 as stated: after a 429 that carries a Retry-After header the sleep is
\* the value of the header; the computed backoff is used only without one.
C8_RetryAfterAlwaysUsed ==
    \A w \in Threads :
        Sleeps429(w) /\ response[w].retry_after.k # "absent" =>
            /\ response[w].retry_after.k = "num"
            /\ sleep_time[w] = response[w].retry_after.secs * SleepScale

\* C8 amended: after a 429 the sleep asked for is the value of Retry-After
\* when float() parses it (no jitter, no cap), min(backoff, 5.0) plus jitter
\* when the header is absent or empty, and backoff plus jitter when it is
\* any other text.
C8_RetryAfterWhenNumeric ==
    \A w \in Threads :
        Sleeps429(w) =>
            LET h == response[w].retry_after IN
            /\ h.k = "num" => sleep_time[w] = h.secs * SleepScale
            /\ h.k \in {"absent", "empty"} =>
                   \E j \in Jitters : sleep_time[w] = Capped(retries[w]) + j
            /\ h.k = "text" =>
                   \E j \in Jitters : sleep_time[w] = BackoffAt(retries[w]) + j

C8_Witness ==
    \E w \in Threads :
        /\ Sleeps429(w)
        /\ response[w].retry_after = NumHeader(2)
        /\ retries[w] = 3

\* the outcome of a run that ended because stage `stg` failed
FailedAt(stg) ==
    CASE stg = "lookup" -> "FailedAtCirculationLookup"
      [] stg = "decirc" -> "FailedAtDecirculation"
      [] stg = "unpub" -> "FailedAtUnpublish"
      [] OTHER -> "FailedAtDeletion"

\* C9: a fatal 4xx is never followed by a sleep or another attempt: the call
\* returns it at once (as the answer to the first attempt, after one request
\* and no sleep), and the calling stage reports failure: delete-circulation
\* clears all_successful, every other stage ends the run with its failure.
C9_FatalNotRetried ==
    /\ [](\A w \in Threads :
            /\ pc[w] = "sleep" => ~Fatal4xx(response[w].status)
            /\ attempts[w] >= 1 /\ Fatal4xx(response[w].status) =>
                   /\ pc[w] \in {"returned", "done"}
                   /\ raised[w] = "no"
                   /\ attempts[w] = retries[w] + 1
                   /\ retries[w] = 0 => slept[w] = 0)
    /\ [][\A w \in Threads :
            /\ pc[w] = "returned" /\ Fatal4xx(response[w].status)
            /\ pc'[w] # pc[w]
            => IF stage[w] = "decirc"
               THEN ~all_successful'[w]
               ELSE pc'[w] = "done" /\ outcome'[w] = FailedAt(stage[w])]_vars

C9_Witness ==
    \E w \in Threads :
        /\ pc[w] = "done" /\ stage[w] = "unpub"
        /\ Fatal4xx(response[w].status)
        /\ attempts[w] = 1

\* C10: a 404 answer to a DELETE call is never followed by a sleep or another
\* attempt, and the stage takes it as success: delete-circulation leaves
\* all_successful as it was, unpublish goes on to the permanent delete, and
\* the permanent delete ends the run in Success.
C10_NotFoundIsSuccess ==
    /\ [](\A w \in Threads :
            stage[w] \in {"decirc", "unpub", "delete"} /\ attempts[w] >= 1
            /\ response[w].status = 404 =>
                /\ pc[w] \in {"returned", "done"}
                /\ raised[w] = "no"
                /\ attempts[w] = retries[w] + 1)
    /\ [][\A w \in Threads :
            /\ pc[w] = "returned" /\ response[w].status = 404
            /\ pc'[w] # pc[w]
            => CASE stage[w] = "decirc" ->
                        all_successful'[w] = all_successful[w]
                 [] stage[w] = "unpub" ->
                        pc'[w] = "admit" /\ stage'[w] = "delete"
                 [] stage[w] = "delete" -> outcome'[w] = "Success"
                 [] OTHER -> TRUE]_vars

C10_Witness ==
    \E w \in Threads :
        /\ pc[w] = "done" /\ outcome[w] = "Success"
        /\ response[w].status = 404 /\ attempts[w] = 1
        /\ Len(calls[w]) = 5

\* C11: a run whose every answer was a 404 (the story is already removed:
\* lookup, unpublish and permanent delete) ends in Success after exactly
\* those three requests, with no exception raised in any call. A second
\* run for the same id is a run of the same specification, so it ends the
\* same way.
C11_AlreadyRemovedSucceeds ==
    \A w \in Threads :
        all404[w] =>
            /\ raised[w] = "no"
            /\ website_ids[w].ids = <<>>
            /\ pc[w] = "done" =>
                   /\ outcome[w] = "Success"
                   /\ calls[w] = CallsFor(<<>>)

C11_Witness ==
    \E w \in Threads :
        /\ pc[w] = "done" /\ all404[w]
        /\ attempts[w] = 1 /\ stage[w] = "delete"

\* C12: when a DELETE call ends, its stage takes it as success exactly when
\* the final answer is a 2xx or a 404: delete-circulation keeps
\* all_successful only then, unpublish goes on to the permanent delete only
\* then, and the permanent delete ends the run in Success only then.
C12_DeleteOkIff2xxOr404 ==
    [][\A w \in Threads :
        pc[w] = "returned" /\ pc'[w] # pc[w] =>
            CASE stage[w] = "decirc" ->
                    all_successful'[w] = (all_successful[w] /\ Final2xxOr404(w))
              [] stage[w] = "unpub" ->
                    (stage'[w] = "delete") = Final2xxOr404(w)
              [] stage[w] = "delete" ->
                    (outcome'[w] = "Success") = Final2xxOr404(w)
              [] OTHER -> TRUE]_vars

\* a result that make_request_with_retry is to retry
Retryable(st) == st = 0 \/ st = 429 \/ (500 <= st /\ st < 600)

\* C13: a call returns a response only if it is not retryable, after one
\* request more than the retryable results before it, of which there are
\* fewer than max_retries; and a retryable result that is not the
\* max_retries-th is always followed by another attempt, never by the end
\* of the call.
C13_RetriedThenReturned ==
    /\ [](\A w \in Threads :
            pc[w] = "returned" /\ raised[w] = "no" =>
                /\ ~Retryable(response[w].status)
                /\ retries[w] < max_retries
                /\ attempts[w] = retries[w] + 1)
    /\ [][\A w \in Threads :
            /\ pc[w] = "sleep" /\ Retryable(response[w].status)
            /\ retries[w] + 1 < max_retries
            /\ pc'[w] # pc[w]
            => pc'[w] = "admit" /\ raised'[w] = "no"]_vars

\* the lookup call ended by raising (retries exhausted, or any other
\* exception) or with a 4xx/5xx answer other than 404
LookupFailed(w) ==
    /\ pc[w] = "returned" /\ stage[w] = "lookup"
    /\ \/ raised[w] # "no"
       \/ 400 <= response[w].status /\ response[w].status < 600
          /\ response[w].status # 404

\* C14: a failed lookup ends the run at once in FailedAtCirculationLookup,
\* and a run with that outcome has sent the lookup and no other request.
C14_LookupFailureHalts ==
    /\ [](\A w \in Threads :
            outcome[w] = "FailedAtCirculationLookup" =>
                /\ pc[w] = "done"
                /\ calls[w] = <<<<"lookup", "">>>>)
    /\ [][\A w \in Threads :
            LookupFailed(w) /\ pc'[w] # pc[w] =>
                /\ pc'[w] = "done"
                /\ outcome'[w] = "FailedAtCirculationLookup"]_vars

C14_Witness ==
    \E w \in Threads :
        /\ outcome[w] = "FailedAtCirculationLookup"
        /\ raised[w] = "retries" /\ attempts[w] = max_retries

IsDecirc(call) == call[1] = "decirc"

\* the delete-circulation requests of a run, as the websites they name
DecircCalls(w) ==
    [i \in 1..Len(SelectSeq(calls[w], IsDecirc)) |->
        SelectSeq(calls[w], IsDecirc)[i][2]]

\* C15: when decirculate_story has returned, one delete-circulation request
\* was sent for every website id of the lookup, in their order, and the
\* stage succeeded exactly when every one of them ended in a 2xx or a 404;
\* for an empty list it succeeds in the step in which the lookup returns,
\* with no request sent and no token taken.
C15_DecirculateEachWebsite ==
    /\ [](\A w \in Threads :
            /\ succeeded[w] <= Len(DecircCalls(w))
            /\ stage_ok[w].decirc # "pending" =>
                /\ DecircCalls(w) = website_ids[w].ids
                /\ (stage_ok[w].decirc = "ok")
                       = (succeeded[w] = Len(website_ids[w].ids)))
    /\ [][\A w \in Threads :
            /\ pc[w] = "returned" /\ stage[w] = "lookup"
            /\ ~website_ids'[w].none /\ website_ids'[w].ids = <<>>
            => /\ stage_ok'[w].decirc = "ok"
               /\ stage'[w] = "unpub"
               /\ calls'[w] = calls[w]
               /\ tokens' = tokens /\ unspent' = unspent]_vars

\* get_circulations is about to return for a 2xx lookup with a body of one
\* of `shapes`
LookupAnswered(w, shapes) ==
    /\ pc[w] = "returned" /\ stage[w] = "lookup" /\ raised[w] = "no"
    /\ 200 <= response[w].status /\ response[w].status < 300
    /\ response[w].body.shape \in shapes

\* the lookup gives the empty list and the run goes on to unpublish
EmptyThenUnpublish(w) ==
    /\ website_ids'[w] = List(<<>>)
    /\ stage'[w] = "unpub" /\ pc'[w] = "admit"
    /\ calls'[w] = calls[w]

\* C16 as stated: a 2xx lookup whose body is JSON but not a list, not a dict
\* with a list under one of the four keys and not a record with website_id
\* gives the empty list, and the run goes on to unpublish.
C16_UnrecognizedShapeIsEmpty ==
    [][\A w \in Threads :
        LookupAnswered(w, {"unrecognized", "nested"}) /\ pc'[w] # pc[w] =>
            EmptyThenUnpublish(w)]_vars

\* C16 amended: so does a 2xx lookup whose body, besides, has no value that
\* is a non-empty list of dicts.
C16_NoListShapeIsEmpty ==
    [][\A w \in Threads :
        LookupAnswered(w, {"unrecognized"}) /\ pc'[w] # pc[w] =>
            EmptyThenUnpublish(w)]_vars

C16_Witness ==
    \E w \in Threads :
        /\ stage[w] = "unpub" /\ pc[w] = "admit" /\ attempts[w] = 0
        /\ response[w].status = 200
        /\ response[w].body.shape = "unrecognized"
        /\ website_ids[w] = List(<<>>)
        /\ stage_ok[w].lookup = "ok"

C18_FailureIsolated ==
    /\ \A w \in {"A", "B"} : <>(pc[w] = "done" /\ outcome[w] \in Outcomes)
    /\ [][\A v, w \in Threads :
            /\ v # w /\ pc[v] # "done" /\ pc'[v] = "done"
            => /\ pc'[w] = pc[w] /\ stage'[w] = stage[w]
               /\ outcome'[w] = outcome[w] /\ raised'[w] = raised[w]
               /\ website_ids'[w] = website_ids[w]]_vars

C18_Witness ==
    /\ outcome["A"] = "FailedAtCirculationLookup" /\ raised["A"] = "retries"
    /\ outcome["B"] = "Success"
    /\ Len(calls["B"]) = 4

\* C19: a run has an outcome exactly when it has ended, the outcome is one of
\* the five, and once set it never changes.
C19_OutcomeWrittenOnce ==
    /\ [](\A w \in Threads :
            /\ outcome[w] \in Outcomes \cup {"none"}
            /\ (pc[w] = "done") = (outcome[w] \in Outcomes))
    /\ [][\A w \in Threads :
            outcome[w] # "none" => outcome'[w] = outcome[w]]_vars

C19_Witness ==
    \E w \in Threads :
        /\ pc[w] = "done" /\ outcome[w] = "FailedAtDeletion"
        /\ raised[w] = "retries"

\* C20: the summary is always reached, and when it is every submitted run
\* has ended and processed_count is the number of ids dispatched.
C20_SummaryReached ==
    /\ <>(mainpc = "summary")
    /\ [](mainpc = "summary" =>
            /\ processed_count = Len(futures)
            /\ Len(futures) = 2
            /\ yielded = Threads
            /\ \A w \in Threads : pc[w] = "done")
    /\ [][processed_count' \in {processed_count, processed_count + 1}]_vars

C20_Witness ==
    /\ mainpc = "summary"
    /\ \A w \in Threads : outcome[w] \in Failures
    /\ outcome["A"] # outcome["B"]

RECURSIVE SumOver(_, _)
SumOver(f, S) ==
    IF S = {} THEN 0
    ELSE LET x == CHOOSE y \in S : TRUE IN f[x] + SumOver(f, S \ {x})

\* C21: when the summary is reached it reports a count for each outcome;
\* the counts add up to the ids processed, and those of the FailedAt*
\* outcomes to the runs that did not end in Success.
C21_TallyReported ==
    mainpc = "summary" =>
        /\ DOMAIN ReportedTally = Outcomes
        /\ \A o \in Outcomes :
               ReportedTally[o] = Cardinality({w \in Threads : outcome[w] = o})
        /\ SumOver(ReportedTally, Outcomes) = processed_count
        /\ SumOver(ReportedTally, Failures)
               = Cardinality({w \in Threads : outcome[w] # "Success"})

\* no thread has started, no token was asked for and no request was sent
NothingSent ==
    /\ tokens = capacity /\ timestamp = 0 /\ unspent = 0
    /\ futures = <<>>
    /\ \A w \in Threads : pc[w] = "queued" /\ calls[w] = <<>>

\* C24: without ARC_ACCESS_TOKEN or ORG_ID the program goes from its start
\* straight to its exit, with status 1, and has by then opened no input,
\* asked for no token and sent no request.
C24_NoConfigExitsOne ==
    ~configured =>
        /\ mainpc \in {"start", "exit"}
        /\ mainpc = "exit" => exit_status = 1
        /\ ~opened
        /\ story_ids = <<>>
        /\ NothingSent

C24_Witness ==
    /\ ~configured /\ mainpc = "exit"
    /\ input.readable /\ LoadedIds # <<>>

\* C25: when the input source cannot be read the program exits at once with
\* a status other than 0, and no token is asked for and no request sent.
C25_UnreadableExitsNonZero ==
    configured /\ ~input.readable =>
        /\ mainpc \in {"start", "load", "exit"}
        /\ mainpc = "exit" => exit_status # 0
        /\ NothingSent

C27_LimitCaps ==
    configured /\ input.readable /\ opened /\ args.limit.given =>
        /\ story_ids = SubSeq(LoadedIds, 1, Min(args.limit.n, Len(LoadedIds)))
        /\ Len(futures) <= args.limit.n

\* the same for the limits above 0
C27_PositiveLimitCaps ==
    configured /\ input.readable /\ opened /\ args.limit.given
        /\ args.limit.n > 0 =>
        /\ story_ids = SubSeq(LoadedIds, 1, Min(args.limit.n, Len(LoadedIds)))
        /\ Len(futures) <= args.limit.n

RECURSIVE Column(_, _, _)
\* the non-empty fields of column c of lines i.. of the file
Column(file, i, c) ==
    IF i > Len(file) THEN <<>>
    ELSE (IF Len(file[i]) >= c /\ file[i][c] # "" THEN <<file[i][c]>>
          ELSE <<>>) \o Column(file, i + 1, c)

\* C28: when the first field of the first line is an id of 26 alphanumeric
\* characters every line is data, and the rows returned are the lines with
\* an id in the first field, all the lines if each has one; else the first
\* line is a header, and when it names one column story_id the rows
\* returned are the later lines with an id in that column: for a file that
\* starts with story_id,publish_date, all the lines but the first if each
\* has an id.
C28_HeaderDetected ==
    mainpc = "loaded" =>
        LET file == input.files[1]
            n == Len(file)
        IN  IF n > 0 /\ file[1] # <<>> /\ IsId26(file[1][1])
            THEN /\ StoryIdsOf(rows) = Column(file, 1, 1)
                 /\ (\A i \in 1..n : file[i] # <<>> /\ file[i][1] # "")
                        => Len(rows) = n
            ELSE /\ Len(rows) <= (IF n = 0 THEN 0 ELSE n - 1)
                 /\ \A c \in 1..2 :
                        /\ n > 0 /\ Len(file[1]) >= c
                        /\ file[1][c] = "story_id"
                        /\ \A d \in 1..Len(file[1]) :
                               file[1][d] = "story_id" => d = c
                        => StoryIdsOf(rows) = Column(file, 2, c)
                 /\ /\ n > 0 /\ file[1] = <<"story_id", "publish_date">>
                    /\ \A i \in 2..n : file[i] # <<>> /\ file[i][1] # ""
                    => Len(rows) = n - 1

C28_Witness ==
    /\ mainpc = "loaded"
    /\ input.files[1] = << <<"story_id", "publish_date">>, <<"A", "d">>,
                            <<"a9", "d">> >>
    /\ StoryIdsOf(rows) = <<"A", "a9">>

\* C22: never more than MAX_WORKERS runs are in progress, however many ids
\* were submitted; a run starts only while fewer than MAX_WORKERS are in
\* progress, so the id beyond the bound starts after another has ended.
C22_AtMostMaxWorkers ==
    /\ [](InFlight <= MAX_WORKERS)
    /\ [][\A w \in Threads :
            pc[w] = "idle" /\ pc'[w] # "idle"
            => /\ InFlight < MAX_WORKERS
               /\ InFlight' = InFlight + 1
               /\ Cardinality({ v \in Threads :
                                   pc[v] \notin {"queued", "idle"} })
                      >= MAX_WORKERS
                  => \E v \in Threads : pc[v] = "done"]_vars

C22_Witness ==
    /\ InFlight = MAX_WORKERS
    /\ pc[MAX_WORKERS + 1] \notin {"queued", "idle", "done"}

\* C29: once a KeyboardInterrupt has reached the main thread, no id whose
\* run had not started is started.
C29_NoStartAfterInterrupt ==
    [][interrupted =>
         \A w \in Threads :
             pc[w] \in {"queued", "idle"} => pc'[w] = pc[w]]_vars

\* C23: a thread leaves wait_for_token only by a consume() that found a whole
\* token and took exactly one; and every thread that waits in wait_for_token
\* is admitted in the end.
C23_AdmittedAfterConsume ==
    /\ [][\A w \in Threads :
            pc[w] # "request" /\ pc'[w] = "request"
            => /\ pc[w] = "admit"
               /\ CanConsume
               /\ tokens' = Refilled - OneToken
               /\ tokens' >= 0
               /\ unspent' = unspent + 1
               /\ \A v \in Threads \ {w} : pc'[v] = pc[v]]_vars
    /\ \A w \in 1..NumCallers :
           (pc[w] \in {"admit", "poll"}) ~> (pc[w] = "request")

C23_Witness ==
    /\ unspent > BUCKET_TOKENS
    /\ \E w, v \in Threads : pc[w] = "request" /\ pc[v] = "poll"

\* C30: the bucket never holds less than nothing nor more than its
\* capacity; the tokens granted and the tokens held never exceed the
\* capacity and what the refills added, so no token is granted twice; and
\* every consume() is one step that refills, sets the timestamp to the
\* clock reading, and takes one whole token for one caller or none.
C30_BucketInvariant ==
    /\ [](0 <= tokens /\ tokens <= capacity)
    /\ [](windowStart = 0 =>
            inWindow * TicksPerSecond + tokens
                <= capacity + fill_rate * timestamp)
    /\ [][tokens' # tokens \/ timestamp' # timestamp \/ unspent' # unspent
          => /\ timestamp' = now
             /\ \/ /\ tokens' = Refilled /\ unspent' = unspent
                   /\ Refilled < TicksPerSecond
                \/ /\ tokens' = Refilled - TicksPerSecond
                   /\ unspent' = unspent + 1
                   /\ Cardinality({ w \in Threads : pc'[w] # pc[w] }) = 1]_vars

C30_Witness ==
    /\ tokens < OneToken /\ now = 0
    /\ unspent = BUCKET_TOKENS
    /\ \E w, v \in Threads : pc[w] = "request" /\ pc[v] = "poll"

\* C31: a run has one position, so one request at a time; it starts its next
\* call only when the one before has returned or raised, retries included;
\* each request belongs to one thread; and the delete-circulation requests
\* of a run are sent in the order of its website ids, the i-th call open
\* only when the i-1 before it are over.
C31_OneRequestPerRun ==
    /\ [](\A w \in Threads :
            LET sent == DecircCalls(w) IN
            /\ Len(sent) <= Len(website_ids[w].ids)
            /\ sent = SubSeq(website_ids[w].ids, 1, Len(sent))
            /\ stage[w] = "decirc" => Len(sent) \in {idx[w] - 1, idx[w]})
    /\ [][\A w \in Threads :
            /\ stage'[w] # stage[w] \/ idx'[w] # idx[w]
                   => pc[w] \in {"idle", "returned"} /\ pc'[w] = "admit"
            /\ attempts'[w] > attempts[w]
                   => /\ pc[w] = "request"
                      /\ attempts'[w] = attempts[w] + 1
                      /\ \A v \in Threads \ {w} : attempts'[v] = attempts[v]]_vars

C31_Witness ==
    \E w \in Threads :
        /\ stage[w] = "decirc" /\ idx[w] = 2
        /\ pc[w] = "request" /\ retries[w] >= 1

\* C32: the list of ids keeps both copies of an id that the input holds
\* twice, one run is submitted for each, and each run sends its own calls.
C32_DuplicatesDispatched ==
    opened =>
        /\ story_ids = <<"A", "A">>
        /\ mainpc \in {"collect", "summary"} =>
               futures = << <<1, "A">>, <<2, "A">> >>
        /\ mainpc = "summary" =>
               \A w \in Threads : calls[w] = CallsFor(<<>>)

C32_Witness ==
    \A w \in Threads : stage[w] = "delete" /\ pc[w] = "request"

\* C33: every call starts with retries 0 and backoff 1.0, whatever the
\* calls before it used; and a step of one thread leaves the retries and the
\* backoff of every other thread as they were.
C33_RetryStateLocal ==
    [][\A w \in Threads :
         /\ pc[w] \in {"idle", "returned"} /\ pc'[w] = "admit"
                => retries'[w] = 0 /\ backoff'[w] = SleepScale
         /\ \A v \in Threads \ {w} :
                pc'[v] # pc[v]
                => retries'[w] = retries[w] /\ backoff'[w] = backoff[w]]_vars

C33_Witness ==
    \E v, w \in Threads :
        /\ v # w
        /\ stage[v] = "unpub" /\ pc[v] = "admit"
        /\ retries[v] = 0 /\ backoff[v] = SleepScale
        /\ ~all2xx[v] /\ response[v].status = 200
        /\ stage[w] = "lookup" /\ retries[w] >= 2

\* C34: a delete-circulation call that fails with websites left is followed
\* by the call for the next website, and a decirculate_story that reports
\* failure has sent a request for every website id.
C34_AllWebsitesTried ==
    /\ [](\A w \in Threads :
            stage_ok[w].decirc = "failed"
                => DecircCalls(w) = website_ids[w].ids)
    /\ [][\A w \in Threads :
            /\ pc[w] = "returned" /\ stage[w] = "decirc"
            /\ ~DeleteSucceeded(raised[w], response[w])
            /\ idx[w] < Len(website_ids[w].ids)
            /\ pc'[w] # pc[w]
            => /\ stage'[w] = "decirc" /\ idx'[w] = idx[w] + 1
               /\ pc'[w] = "admit"
               /\ outcome'[w] = "none"
               /\ stage_ok'[w].decirc = "pending"]_vars

C34_Witness ==
    \E w \in Threads :
        /\ outcome[w] = "FailedAtDecirculation"
        /\ Len(DecircCalls(w)) = 2
        /\ succeeded[w] = 1
        /\ raised[w] = "no" /\ response[w].status = 200

\* C35: when the lookup is answered 404, get_circulations gives the empty
\* list and the run goes on to unpublish; a run whose list is empty sends no
\* delete-circulation request and does not end in FailedAtCirculationLookup.
C35_Lookup404IsEmpty ==
    /\ [](\A w \in Threads :
            website_ids[w] = List(<<>>) =>
                /\ DecircCalls(w) = <<>>
                /\ outcome[w] # "FailedAtCirculationLookup"
                /\ stage_ok[w].unpub = "ok" =>
                       stage[w] = "delete" /\ Len(calls[w]) \in {2, 3})
    /\ [][\A w \in Threads :
            /\ pc[w] = "returned" /\ stage[w] = "lookup"
            /\ raised[w] = "no" /\ response[w].status = 404
            /\ pc'[w] # pc[w]
            => /\ website_ids'[w] = List(<<>>)
               /\ stage_ok'[w].lookup = "ok" /\ stage_ok'[w].decirc = "ok"
               /\ stage'[w] = "unpub" /\ pc'[w] = "admit"
               /\ outcome'[w] = "none"]_vars

C35_Witness ==
    \E w \in Threads :
        /\ stage[w] = "delete" /\ pc[w] = "returned"
        /\ website_ids[w] = List(<<>>)
        /\ calls[w] = CallsFor(<<>>)
        /\ all404[w]

\* C36: the lock of the rate limiter is free in every state, whatever the
\* threads are doing (sleeping between polls, sleeping out a backoff or a
\* Retry-After, about to send a request), so a thread that asks while a
\* token is available is admitted.
C36_LockOnlyInConsume ==
    /\ lock = Free
    /\ \A w \in Threads :
           pc[w] = "admit" /\ CanConsume
           => ENABLED (wait_for_token(w) /\ pc'[w] = "request")

C36_Witness ==
    \E v, w \in Threads :
        /\ pc[v] = "sleep" /\ sleep_time[v] > 0
        /\ pc[w] = "admit" /\ CanConsume

\* C37: the pagination loops of story ids (fetch_story_ids_for_year and the
\* loop of a window of collect_story_ids_by_date_range) come to their end for
\* every sequence of responses, a page with no content elements before the
\* reported count is reached included.
\* A loop holds its offset, the count and the page in hand, and asks the
\* page at its offset: it terminates for every sequence of responses exactly
\* when no turn can leave it as it was, that is when every turn moves the
\* offset towards the count or ends the loop.
C37_PaginationTerminates ==
    auditpc \in {"year_loop", "window_loop"}
    => ~ENABLED ((year_page \/ window_page) /\ UNCHANGED vars)

\* C38: the subdivision of date windows by retrieve_window terminates for
\* every content of the server, a window of zero or one second whose count
\* exceeds MAX_RESULT_WINDOW included: no call of retrieve_window is on the
\* window of the call that made it, no window that is queried has its start
\* after its end, and the recursion never reaches the limit of Python.
C38_WindowsShrink ==
    /\ auditpc # "RecursionError"
    /\ \A i \in 1..Len(stack) :
           /\ stack[i].depth > 1 => <<stack[i].s, stack[i].e>> # stack[i].parent
           /\ i = 1 => stack[i].s <= stack[i].e

\* the seconds the query of a window asks for
SecondsOf(w) == dt_to_iso(w.s)..dt_to_iso(w.e)

\* C39: when retrieve_window subdivides a window at mid, the seconds its two
\* calls ask for, [s, mid] and [mid + 1 s, e], are disjoint and together are
\* the seconds of the window; and when the collection of a date range has
\* come to its end, every second of the range that holds items is in
\* exactly one of the ranges that were collected: no item twice, none
\* missed.
C39_HalvesPartition ==
    /\ [](auditpc = "done"
            => \A sec \in dt_to_iso(date_range[1])..dt_to_iso(date_range[2]) :
                   site[sec] > 0
                   => Cardinality({i \in 1..Len(leaves) :
                          leaves[i][1] <= sec /\ sec <= leaves[i][2]}) = 1)
    /\ [][Len(stack') = Len(stack) + 1
          => LET w == Head(stack)
                 left == stack'[1]
                 right == stack'[2]
             IN  /\ SecondsOf(left) \cap SecondsOf(right) = {}
                 /\ SecondsOf(left) \cup SecondsOf(right) = SecondsOf(w)]_vars

\* a range of three seconds was split twice and is collected as three ranges
C39_Witness ==
    /\ auditpc = "done"
    /\ Len(leaves) = 3
    /\ \A sec \in dt_to_iso(date_range[1])..dt_to_iso(date_range[2]) :
           site[sec] > 0

\* C40: get_videos_for_site returns no video whose publish_date is after the
\* deletion cutoff, with more than MAX_RESULT_WINDOW videos on the site (date
\* windows) or with fewer (plain pagination): when it has returned, no second
\* after the cutoff that holds videos is in a range it collected.
C40_NothingAfterCutoff ==
    auditpc = "done"
    => \A i \in 1..Len(leaves) : \A sec \in leaves[i][1]..leaves[i][2] :
           sec \in DOMAIN site /\ site[sec] > 0 => sec <= cutoff

\* the same for the sites collected by date windows, where it holds
C40_WindowsStopAtCutoff ==
    auditpc = "done" /\ CountIn(site, 0, MaxSecond) > MAX_RESULT_WINDOW
    => \A i \in 1..Len(leaves) : \A sec \in leaves[i][1]..leaves[i][2] :
           site[sec] > 0 => sec <= cutoff

====
